---- MODULE Spec2Model ----
(***************************************************************************)
(* Real-estate cleaning and imputation pipelines.                          *)
(*                                                                         *)
(*   src/real-estate-platform/data/advanced_imputation.py  AdvancedImputer *)
(*   src/real-estate-platform/data/clean_data.py           platform main   *)
(*   src/clean_data.py                                     root pipeline   *)
(*                                                                         *)
(* A table (pandas DataFrame) is a function  row label -> (column name ->  *)
(* cell).  Cells are integers; NaN stands for a missing cell.  A cell of   *)
(* an object (categorical) column is the rank of its label in the sorted   *)
(* label universe of that column, so integer order is label order.        *)
(* weight[r] is the number of identical copies of row r the table holds:   *)
(* every count, percentage, median and mode below is weighted by it.       *)
(***************************************************************************)
EXTENDS Integers, Sequences, FiniteSets, TLC

VARIABLES
    pc,                 \* position of the running program
    entry,              \* which entry point the run started from
    columns,            \* df.columns, in order
    dtype,              \* column name -> "num" | "cat"
    weight,             \* row label -> number of identical copies
    df,                 \* the table the caller of fit_transform holds
    df_imputed,         \* fit_transform's working table
    df_before,          \* history: the table when fit_transform was entered
    preserve_original,  \* fit_transform's argument
    arg_target_columns, \* fit_transform's argument: [given, cols]
    target_columns,     \* fit_transform's local
    i,                  \* index of the next column in the running loop
    missing_info,       \* analyze_missing_data(df): column -> missing_count
    imputation_stats,   \* self.imputation_stats: column -> stats
    config,             \* impute_real_estate_data's config
    sel,                \* strategy-selector run: its inputs and its result
    caught,             \* clean_data: the except branch was taken
    removed,            \* history: row label -> the step that dropped the
                        \*   row and the row as it was then
    surface_method,     \* history: how the root pipeline filled surfaces and
                        \*   the complete rows its imputation table had
    df_final,           \* the final table of the running pipeline
    call                \* a function called on its own: its name, its
                        \*   arguments and, once it has returned, its result

vars == <<pc, entry, columns, dtype, weight, df, df_imputed, df_before,
          preserve_original, arg_target_columns, target_columns, i,
          missing_info, imputation_stats, config, sel, caught, removed,
          surface_method, df_final, call>>

NaN == -1

----------------------------------------------------------------------------
(* Bounds of the model *)

\* numeric cells of the imputer's tables range over 1..MaxVal
MaxVal == 2
\* labels of a categorical column range over 1..MaxLabel
MaxLabel == 2
\* the strategy selector is run on tables of 1..MaxSelRows rows
MaxSelRows == 41
\* analyze_missing_data is run on columns of 0..MaxAnalyzeRows rows
MaxAnalyzeRows == 40
\* add_derived_features is run on surfaces of 0..MaxDerivedSurface
MaxDerivedSurface == 250

----------------------------------------------------------------------------
(* Generic helpers *)

RECURSIVE SumW(_, _)
SumW(w, S) ==
    IF S = {} THEN 0
    ELSE LET r == CHOOSE x \in S : TRUE IN w[r] + SumW(w, S \ {r})

Range(s) == {s[k] : k \in DOMAIN s}

IndexOf(s, x) == CHOOSE k \in 1..Len(s) : s[k] = x

SetMin(S) == CHOOSE x \in S : \A y \in S : x <= y
SetMax(S) == CHOOSE x \in S : \A y \in S : x >= y

EmptyFn == [x \in {} |-> 0]

\* len(t)
NRows(t) == SumW(weight, DOMAIN t)

\* t[c].isnull()
NullRows(t, c) == {r \in DOMAIN t : t[r][c] = NaN}

\* t[c].isnull().sum()
MissingCount(t, c) == SumW(weight, NullRows(t, c))

\* the set of observed values of column c
Observed(t, c) == {t[r][c] : r \in DOMAIN t \ NullRows(t, c)}

\* t[c] = col, every other column unchanged
SetColumn(t, c, col) == [r \in DOMAIN t |-> [t[r] EXCEPT ![c] = col[r]]]

\* len(t.dropna())
CompleteRows(t) ==
    SumW(weight, {r \in DOMAIN t : \A c \in Range(columns) : t[r][c] # NaN})

----------------------------------------------------------------------------
(* Strategy selection *)

\* the selector with its thresholds read as inclusive: 5% is still simple,
\* 20% is still knn
smart_impute_numerical_inclusive(m, n) ==
    IF 100 * m <= 5 * n THEN "simple"
    ELSE IF 100 * m <= 20 * n THEN "knn"
    ELSE "iterative"

\* smart_impute_numerical, strategy='auto': missing_percentage = m / n * 100
smart_impute_numerical(m, n) ==
    IF 100 * m < 5 * n THEN "simple"
    ELSE IF 100 * m < 20 * n THEN "knn"
    ELSE "iterative"

\* smart_impute_categorical, strategy='auto'
smart_impute_categorical(m, n) ==
    IF 100 * m < 10 * n THEN "mode" ELSE "knn"

\* the dispatch of fit_transform: numeric columns to smart_impute_numerical,
\* object columns to smart_impute_categorical
SelectStrategy(kind, m, n) ==
    IF kind = "num" THEN smart_impute_numerical(m, n)
    ELSE smart_impute_categorical(m, n)

----------------------------------------------------------------------------
(* The sklearn imputers, as fit_transform uses them *)

\* df.select_dtypes(include=[np.number]).columns.tolist()
numerical_cols == SelectSeq(columns, LAMBDA c : dtype[c] = "num")

\* df.select_dtypes(include=['object', 'category']).columns.tolist()
categorical_cols == SelectSeq(columns, LAMBDA c : dtype[c] = "cat")

\* The features an imputer's fit_transform returns: a feature with no observed
\* value at fit is dropped from the output array (keep_empty_features=False).
ValidFeatures(t, cols) == SelectSeq(cols, LAMBDA c : Observed(t, c) # {})

\* One feature of the array KNNImputer/IterativeImputer return: observed cells
\* are kept; a missing cell gets an average of observed values of the feature,
\* that is, some value between their minimum and their maximum.
FilledColumns(t, src) ==
    LET O == Observed(t, src)
        M == NullRows(t, src)
    IN  {[r \in DOMAIN t |-> IF r \in M THEN f[r] ELSE t[r][src]] :
            f \in [M -> SetMin(O)..SetMax(O)]}

\* SimpleImputer(strategy='mean' | 'median').fit_transform(t[[c]]).ravel():
\* one statistic, between the minimum and the maximum observed, in every
\* missing cell.
SimpleFilledColumns(t, c) ==
    LET O == Observed(t, c)
    IN  {[r \in DOMAIN t |-> IF t[r][c] = NaN THEN v ELSE t[r][c]] :
            v \in SetMin(O)..SetMax(O)}

\* SimpleImputer(strategy='most_frequent'): the most frequent observed value,
\* the smallest one on a tie.
MostFrequent(t, c) ==
    LET O == Observed(t, c)
        n(v) == SumW(weight, {r \in DOMAIN t : t[r][c] = v})
    IN  CHOOSE v \in O : \A u \in O : n(v) > n(u) \/ (n(v) = n(u) /\ v <= u)

ModeFilledColumn(t, c) ==
    [r \in DOMAIN t |-> IF t[r][c] = NaN THEN MostFrequent(t, c) ELSE t[r][c]]

\* LabelEncoder.fit_transform on the observed labels of column c: the code of
\* a label is its rank among the sorted distinct labels
LabelCode(t, c, v) == Cardinality({u \in Observed(t, c) : u < v})

\* LabelEncoder.inverse_transform
LabelOf(t, c, k) == CHOOSE v \in Observed(t, c) : LabelCode(t, c, v) = k

Raised == [raised |-> TRUE, col |-> EmptyFn]
Returned(col) == [raised |-> FALSE, col |-> col]

\* fit_transform lines 155-165: what is assigned to df_imputed[column], or the
\* exception.  imputed_values[:, col_index] indexes the imputer's output with
\* the column's position among numerical_cols.
NumericalOutcomes(t, column, strategy) ==
    IF strategy \in {"knn", "iterative"}
    THEN LET valid == ValidFeatures(t, numerical_cols)
             col_index == IndexOf(numerical_cols, column)
         IN  IF col_index > Len(valid)
             THEN {Raised}                       \* IndexError
             ELSE {Returned(col) : col \in FilledColumns(t, valid[col_index])}
    ELSE {Returned(col) : col \in SimpleFilledColumns(t, column)}

\* fit_transform lines 181-213
CategoricalOutcomes(t, column, strategy) ==
    IF strategy = "knn"
    THEN LET valid == ValidFeatures(t, categorical_cols)
             col_index == IndexOf(categorical_cols, column)
         IN  IF col_index > Len(valid) \/ Observed(t, column) = {}
             THEN {Raised}                       \* IndexError, NotFittedError
             ELSE LET src == valid[col_index]
                      nsrc == Cardinality(Observed(t, src))
                      ncol == Cardinality(Observed(t, column))
                      M == NullRows(t, src)
                      code(f, r) == IF r \in M THEN f[r]
                                    ELSE LabelCode(t, src, t[r][src])
                  IN  {IF \E r \in DOMAIN t : code(f, r) >= ncol
                       THEN Raised               \* ValueError: unseen labels
                       ELSE Returned([r \in DOMAIN t |->
                                         LabelOf(t, column, code(f, r))]) :
                          f \in [M -> 0..(nsrc - 1)]}
    ELSE {Returned(ModeFilledColumn(t, column))}

----------------------------------------------------------------------------
(* AdvancedImputer.fit_transform *)

NoTable == EmptyFn
NoCall == [fn |-> "none"]
NoSurfaceMethod == [method |-> "none", complete_rows |-> 0]
NoSel == [kind |-> "none", m |-> 0, n |-> 0, strategy |-> "none"]
NoConfig == [price_strategy |-> "none", location_strategy |-> "none",
             surface_strategy |-> "none", rooms_strategy |-> "none",
             preserve_original |-> TRUE]

\* the config impute_real_estate_data uses when given None, and the one
\* clean_data passes, differ in preserve_original only
RealEstateConfig(preserve) ==
    [price_strategy |-> "knn", location_strategy |-> "mode",
     surface_strategy |-> "iterative", rooms_strategy |-> "knn",
     preserve_original |-> preserve]

\* df.columns[df.isnull().any()].tolist()
ColumnsWithNulls(t) == SelectSeq(columns, LAMBDA c : NullRows(t, c) # {})

\* impute_real_estate_data: the strategies of config are not passed on
impute_real_estate_data ==
    /\ pc = "call_impute"
    /\ preserve_original' = config.preserve_original
    /\ arg_target_columns' = [given |-> FALSE, cols |-> <<>>]
    /\ pc' = "call_fit"
    /\ UNCHANGED <<entry, columns, dtype, weight, df, df_imputed, df_before,
                   target_columns, i, missing_info, imputation_stats, config,
                   sel, caught, removed, surface_method, df_final, call>>

\* fit_transform lines 130-145
fit_transform_begin ==
    /\ pc = "call_fit"
    /\ df_imputed' = df
    /\ df_before' = df
    /\ target_columns' = IF arg_target_columns.given
                         THEN arg_target_columns.cols
                         ELSE ColumnsWithNulls(df)
    /\ missing_info' = [c \in Range(columns) |-> MissingCount(df, c)]
    /\ imputation_stats' = EmptyFn
    /\ i' = 1
    /\ pc' = "numerical_loop"
    /\ UNCHANGED <<entry, columns, dtype, weight, df, preserve_original,
                   arg_target_columns, config, sel, caught, removed,
                   surface_method, df_final, call>>

\* the loop conditions of lines 149 and 176
NumEligible(k) ==
    dtype[target_columns[k]] = "num" /\ NullRows(df, target_columns[k]) # {}
CatEligible(k) ==
    dtype[target_columns[k]] = "cat" /\ NullRows(df, target_columns[k]) # {}

NextNum ==
    IF pc = "numerical_loop"
    THEN {k \in i..Len(target_columns) : NumEligible(k)}
    ELSE {}
NextCat ==
    LET from == IF pc = "numerical_loop" THEN 1 ELSE i
    IN  {k \in from..Len(target_columns) : CatEligible(k)}

\* the assignment made to the caller's table whatever preserve_original says
AssignColumn_in_place(column, col, strategy) ==
    LET t == SetColumn(df_imputed, column, col)
    IN  /\ df_imputed' = t
        /\ df' = t
        /\ imputation_stats' =
              (column :> [strategy |-> strategy,
                          missing_before |-> missing_info[column],
                          missing_after |-> MissingCount(t, column)])
              @@ imputation_stats

\* df_imputed[column] = col, and the column's entry of imputation_stats;
\* without preserve_original df_imputed is df itself
AssignColumn(column, col, strategy) ==
    LET t == SetColumn(df_imputed, column, col)
    IN  /\ df_imputed' = t
        /\ df' = IF preserve_original THEN df ELSE t
        /\ imputation_stats' =
              (column :> [strategy |-> strategy,
                          missing_before |-> missing_info[column],
                          missing_after |-> MissingCount(t, column)])
              @@ imputation_stats

\* one iteration of the loop of lines 148-172 whose condition holds
ImputeNumericalColumn ==
    /\ pc = "numerical_loop"
    /\ NextNum # {}
    /\ LET k == SetMin(NextNum)
           column == target_columns[k]
           strategy == smart_impute_numerical(MissingCount(df_imputed, column),
                                              NRows(df_imputed))
       IN  \E out \in NumericalOutcomes(df_imputed, column, strategy) :
              IF out.raised
              THEN /\ pc' = "fit_raised"
                   /\ UNCHANGED <<df, df_imputed, imputation_stats, i>>
              ELSE /\ AssignColumn(column, out.col, strategy)
                   /\ i' = k + 1
                   /\ pc' = "numerical_loop"
    /\ UNCHANGED <<entry, columns, dtype, weight, df_before, preserve_original,
                   arg_target_columns, target_columns, missing_info, config,
                   sel, caught, removed, surface_method, df_final, call>>

\* one iteration of the loop of lines 175-220 whose condition holds
ImputeCategoricalColumn ==
    /\ pc \in {"numerical_loop", "categorical_loop"}
    /\ NextNum = {}
    /\ NextCat # {}
    /\ LET k == SetMin(NextCat)
           column == target_columns[k]
           strategy == smart_impute_categorical(
                           MissingCount(df_imputed, column), NRows(df_imputed))
       IN  \E out \in CategoricalOutcomes(df_imputed, column, strategy) :
              IF out.raised
              THEN /\ pc' = "fit_raised"
                   /\ UNCHANGED <<df, df_imputed, imputation_stats, i>>
              ELSE /\ AssignColumn(column, out.col, strategy)
                   /\ i' = k + 1
                   /\ pc' = "categorical_loop"
    /\ UNCHANGED <<entry, columns, dtype, weight, df_before, preserve_original,
                   arg_target_columns, target_columns, missing_info, config,
                   sel, caught, removed, surface_method, df_final, call>>

\* line 222
fit_transform_return ==
    /\ pc \in {"numerical_loop", "categorical_loop"}
    /\ NextNum = {}
    /\ NextCat = {}
    /\ pc' = "fit_returned"
    /\ UNCHANGED <<entry, columns, dtype, weight, df, df_imputed, df_before,
                   preserve_original, arg_target_columns, target_columns, i,
                   missing_info, imputation_stats, config, sel, caught, removed,
          surface_method, df_final, call>>

----------------------------------------------------------------------------
(* The imputation engine called on a table of the shape of the module's own
   sample data: Price, Surface, Rooms numeric, Location categorical *)

FitColumns == <<"Price", "Surface", "Rooms", "Location">>
FitDtype == [c \in Range(FitColumns) |->
                IF c = "Location" THEN "cat" ELSE "num"]

FitCells(c) ==
    CASE c = "Surface" -> {NaN} \cup 1..MaxVal
      [] c = "Location" -> {NaN} \cup 1..MaxLabel
      [] OTHER -> {NaN, 1}

\* the copies of each row: 2 rows, or the 20-row table of 6 + 3 + 11 rows
FitWeights == {<<30, 1>>, <<9, 1>>, <<6, 3, 11>>}

FitTables(w) ==
    LET cells(c) == IF Len(w) = 3 /\ c = "Location" THEN {NaN, 1}
                    ELSE FitCells(c)
    IN  [1..Len(w) -> {row \in [Range(FitColumns) -> {NaN} \cup 1..2] :
                          \A c \in Range(FitColumns) : row[c] \in cells(c)}]

\* target_columns as a caller may pass it: None, or one column
FitTargets ==
    {[given |-> FALSE, cols |-> <<>>]}
    \cup {[given |-> TRUE, cols |-> <<c>>] : c \in Range(FitColumns)}

InitFit ==
    /\ entry \in {"fit_transform", "impute_real_estate_data"}
    /\ pc = IF entry = "fit_transform" THEN "call_fit" ELSE "call_impute"
    /\ columns = FitColumns
    /\ dtype = FitDtype
    /\ weight \in FitWeights
    /\ df \in FitTables(weight)
    /\ df_imputed = NoTable
    /\ df_before = NoTable
    /\ preserve_original \in BOOLEAN
    /\ arg_target_columns \in FitTargets
    /\ entry = "impute_real_estate_data" =>
          arg_target_columns.given = FALSE
    /\ config = IF entry = "impute_real_estate_data"
                THEN RealEstateConfig(preserve_original) ELSE NoConfig
    /\ target_columns = <<>>
    /\ i = 1
    /\ missing_info = EmptyFn
    /\ imputation_stats = EmptyFn
    /\ sel = NoSel
    /\ caught = FALSE
    /\ removed = EmptyFn
    /\ surface_method = NoSurfaceMethod
    /\ df_final = NoTable
    /\ call = NoCall

NextFit ==
    \/ impute_real_estate_data
    \/ fit_transform_begin
    \/ ImputeNumericalColumn
    \/ ImputeCategoricalColumn
    \/ fit_transform_return

SpecFit == InitFit /\ [][NextFit]_vars

----------------------------------------------------------------------------
(* The strategy selector run on its own *)

InitSel ==
    /\ sel \in {s \in [kind : {"num", "cat"}, m : 0..MaxSelRows,
                       n : 1..MaxSelRows, strategy : {"none"}] : s.m <= s.n}
    /\ pc = "select"
    /\ entry = "selector"
    /\ columns = <<>>
    /\ dtype = EmptyFn
    /\ weight = <<>>
    /\ df = NoTable
    /\ df_imputed = NoTable
    /\ df_before = NoTable
    /\ preserve_original = TRUE
    /\ arg_target_columns = [given |-> FALSE, cols |-> <<>>]
    /\ config = NoConfig
    /\ target_columns = <<>>
    /\ i = 1
    /\ missing_info = EmptyFn
    /\ imputation_stats = EmptyFn
    /\ caught = FALSE
    /\ removed = EmptyFn
    /\ surface_method = NoSurfaceMethod
    /\ df_final = NoTable
    /\ call = NoCall

\* a column of kind sel.kind with sel.m of sel.n cells missing is given its
\* strategy
Select ==
    /\ pc = "select"
    /\ sel' = [sel EXCEPT !.strategy = SelectStrategy(sel.kind, sel.m, sel.n)]
    /\ pc' = "selected"
    /\ UNCHANGED <<entry, columns, dtype, weight, df, df_imputed, df_before,
                   preserve_original, arg_target_columns, target_columns, i,
                   missing_info, imputation_stats, config, caught, removed,
                   surface_method, df_final, call>>

NextSel == Select

SpecSel == InitSel /\ [][NextSel]_vars

----------------------------------------------------------------------------
(* Shared by the two pipelines *)

\* the variables only fit_transform and the selector touch
imputerVars == <<df_imputed, df_before, preserve_original, arg_target_columns,
                 target_columns, i, missing_info, imputation_stats, config,
                 sel>>

\* the k-th smallest (k = 1, 2, ...) non-null value of column c among rows S
KthValue(t, S, c, k) ==
    LET R == {r \in S : t[r][c] # NaN}
        atMost(v) == SumW(weight, {r \in R : t[r][c] <= v})
    IN  SetMin({t[r][c] : r \in {x \in R : atMost(t[x][c]) >= k}})

\* Series.median() of column c over rows S: NaN when every cell is missing,
\* the mean of the two middle values when the count is even
Median(t, S, c) ==
    LET n == SumW(weight, {r \in S : t[r][c] # NaN})
    IN  IF n = 0 THEN NaN
        ELSE IF n % 2 = 1 THEN KthValue(t, S, c, (n + 1) \div 2)
        ELSE LET a == KthValue(t, S, c, n \div 2)
                 b == KthValue(t, S, c, n \div 2 + 1)
             IN  a + (b - a) \div 2

RECURSIVE GCD(_, _)
GCD(a, b) == IF b = 0 THEN a ELSE GCD(b, a % b)

\* A quotient of two cells, kept exact as a fraction in lowest terms.
RatioNaN == <<NaN, NaN>>
RatioInf == <<1, 0>>

\* p / s in float arithmetic: NaN when an operand is NaN or for 0 / 0,
\* infinite for a division by zero
Divide(p, s) ==
    IF p = NaN \/ s = NaN THEN RatioNaN
    ELSE IF s = 0 THEN (IF p = 0 THEN RatioNaN ELSE RatioInf)
    ELSE <<p \div GCD(p, s), s \div GCD(p, s)>>

\* rows `gone` leave the table at step `by`
Drop(t, gone) == [r \in DOMAIN t \ gone |-> t[r]]
Record(gone, by) ==
    [r \in gone |-> [by |-> by, row |-> df[r]]] @@ removed

----------------------------------------------------------------------------
(* The root pipeline: clean_real_estate_data of src/clean_data.py *)

\* labels of Wilaya and Location after cleaning
Unknown == 0
\* "Unknown-<wilaya>"
UnknownIn(w) == 100 + w

\* the wilaya labels of the input: 1 is "Alger", 2 is "alger"
RootWilayas == {1, 2}
RootLocations == {1}

\* str.title() of a label
Title(name) == IF name = 2 THEN 1
               ELSE IF name = UnknownIn(2) THEN UnknownIn(1)
               ELSE name

\* the TransactionType labels, by rank in sorted order: "Autre" stands for
\* any label neither pipeline knows
TT_Autre == 1
TT_Location == 2
TT_Rental == 3
TT_SALE == 4
TT_Sale == 5
TT_Vente == 6
RootTransactionTypes == {NaN, TT_Vente}

\* the (Price, PriceUnit) cells of the input; "NaN" is a missing unit
RootPrices ==
    {<<NaN, "NaN">>, <<NaN, "UNIT">>, <<NaN, "UNIT_PER_SQUARE">>,
     <<50000, "UNIT_PER_SQUARE">>, <<50000, "UNIT">>, <<2, "MILLION">>}

\* the Surface cells of the input: NaN, or a text whose first number followed
\* by m is the cell
RootSurfaces == {NaN, 0, 48}

\* a row as read, with the columns the pipeline adds still missing
RawRow(p, w, l, tt, s, rm) ==
    [Price |-> p[1], PriceUnit |-> p[2], Wilaya |-> w, Location |-> l,
     TransactionType |-> tt, Surface |-> s, Rooms |-> rm,
     NormalizedPrice |-> NaN, CleanSurface |-> NaN, CleanRooms |-> NaN,
     PricePerSqm |-> RatioNaN]

\* rows that vary in price, place, transaction type and surface, with no room
\* count given
RootRows ==
    {RawRow(p, w, l, tt, s, NaN) :
        p \in RootPrices, w \in {NaN} \cup RootWilayas,
        l \in {NaN} \cup RootLocations, tt \in RootTransactionTypes,
        s \in RootSurfaces}

\* the Surface and Rooms cells of the rows below: NaN, or a text whose first
\* number is the cell
RoomSurfaces == {NaN, 0, 48, 1000, 6000}
RootRooms == {NaN, 0, 3, 25}

\* rows that vary in surface and room count
RoomRows ==
    {RawRow(<<2, "MILLION">>, w, 1, TT_Vente, s, rm) :
        w \in {NaN, 1}, s \in RoomSurfaces, rm \in RootRooms}

\* the copies of each of the two rows
RootWeights == {<<1, 1>>, <<10, 1>>, <<11, 1>>}

\* the conversion that leaves a MILLION_PER_SQUARE price as it is
normalize_price_per_square_unscaled(row) ==
    IF row.Price = NaN \/ row.Price <= 0 THEN NaN
    ELSE IF row.PriceUnit = "MILLION" THEN row.Price * 1000000
    ELSE IF row.PriceUnit = "BILLION" THEN row.Price * 1000000000
    ELSE row.Price

\* normalize_price(row), lines 36-56
normalize_price(row) ==
    IF row.Price = NaN \/ row.Price <= 0 THEN NaN
    ELSE IF row.PriceUnit = "MILLION" THEN row.Price * 1000000
    ELSE IF row.PriceUnit = "BILLION" THEN row.Price * 1000000000
    ELSE IF row.PriceUnit = "UNIT" THEN row.Price
    ELSE IF row.PriceUnit = "UNIT_PER_SQUARE" THEN row.Price
    ELSE IF row.PriceUnit = "MILLION_PER_SQUARE" THEN row.Price * 1000000
    ELSE row.Price

\* lines 27-59: drop the rows with neither price nor unit, normalize the rest
NormalizePrices ==
    /\ pc = "root_normalize"
    /\ LET gone == {r \in DOMAIN df :
                       df[r].Price = NaN /\ df[r].PriceUnit = "NaN"}
           kept == Drop(df, gone)
       IN  /\ df' = [r \in DOMAIN kept |->
                        [kept[r] EXCEPT !.NormalizedPrice =
                                            normalize_price(kept[r])]]
           /\ removed' = Record(gone, "invalid_price")
    /\ pc' = "root_impute_price"
    /\ UNCHANGED <<entry, columns, dtype, weight, imputerVars, caught,
                   surface_method, df_final, call>>

\* the rows of a wilaya
InWilaya(t, w) == {r \in DOMAIN t : t[r].Wilaya = w}

\* lines 61-77: a missing price becomes the median price of the row's wilaya
ImputePrices ==
    /\ pc = "root_impute_price"
    /\ df' = [r \in DOMAIN df |->
                LET w == df[r].Wilaya
                    wilaya_median ==
                        Median(df, InWilaya(df, w), "NormalizedPrice")
                IN  IF /\ df[r].NormalizedPrice = NaN
                       /\ w # NaN
                       /\ wilaya_median # NaN
                    THEN [df[r] EXCEPT !.NormalizedPrice = wilaya_median]
                    ELSE df[r]]
    /\ pc' = "root_filter_price"
    /\ UNCHANGED <<entry, columns, dtype, weight, imputerVars, caught, removed,
                   surface_method, df_final, call>>

MIN_PRICE == 100000
MAX_PRICE == 1000000000
MIN_PRICE_PER_SQM == 5000
MAX_PRICE_PER_SQM == 2000000

per_sqm_mask(row) ==
    row.PriceUnit \in {"UNIT_PER_SQUARE", "MILLION_PER_SQUARE"}

valid_regular_prices(row) ==
    \/ (row.NormalizedPrice # NaN /\ row.NormalizedPrice >= MIN_PRICE
                                  /\ row.NormalizedPrice <= MAX_PRICE)
    \/ row.NormalizedPrice = NaN

valid_per_sqm_prices(row) ==
    \/ (row.NormalizedPrice # NaN /\ row.NormalizedPrice >= MIN_PRICE_PER_SQM
                                  /\ row.NormalizedPrice <= MAX_PRICE_PER_SQM)
    \/ row.NormalizedPrice = NaN

\* the mask of lines 103-106
PriceFilterKeeps(row) ==
    \/ (~per_sqm_mask(row) /\ valid_regular_prices(row))
    \/ (per_sqm_mask(row) /\ valid_per_sqm_prices(row))

\* df[mask] of lines 103-106
PriceFiltered(t) == Drop(t, {r \in DOMAIN t : ~PriceFilterKeeps(t[r])})

\* lines 79-107
FilterPrices ==
    /\ pc = "root_filter_price"
    /\ LET kept == PriceFiltered(df)
       IN  /\ df' = kept
           /\ removed' = Record(DOMAIN df \ DOMAIN kept, "price_filter")
    /\ pc' = "root_impute_location"
    /\ UNCHANGED <<entry, columns, dtype, weight, imputerVars, caught,
                   surface_method, df_final, call>>

\* lines 120-126: a missing Wilaya becomes the Wilaya of the first row that
\* has the same Location and a Wilaya
WilayaFromLocation(t) ==
    [r \in DOMAIN t |->
        LET both == {x \in DOMAIN t : /\ t[x].Location = t[r].Location
                                      /\ t[x].Wilaya # NaN}
        IN  IF t[r].Wilaya = NaN /\ t[r].Location # NaN /\ both # {}
            THEN [t[r] EXCEPT !.Wilaya = t[SetMin(both)].Wilaya]
            ELSE t[r]]

\* value_counts().index[0] of the Location cells of rows S: the most common
\* label, the one seen first on a tie
MostCommonLocation(t, S) ==
    LET n(l) == SumW(weight, {r \in S : t[r].Location = l})
        first(l) == SetMin({r \in S : t[r].Location = l})
        L == {t[r].Location : r \in S}
    IN  CHOOSE l \in L :
            \A u \in L : n(l) > n(u) \/ (n(l) = n(u) /\ first(l) <= first(u))

\* lines 128-139: a missing Location becomes the most common Location of the
\* row's Wilaya, or "Unknown-<wilaya>" when the Wilaya has none
LocationFromWilaya(t) ==
    [r \in DOMAIN t |->
        LET known == {x \in InWilaya(t, t[r].Wilaya) : t[x].Location # NaN}
        IN  IF t[r].Location = NaN /\ t[r].Wilaya # NaN
            THEN [t[r] EXCEPT !.Location =
                     IF known # {} THEN MostCommonLocation(t, known)
                     ELSE UnknownIn(t[r].Wilaya)]
            ELSE t[r]]

\* lines 141-143
UnknownFilled(t) ==
    [r \in DOMAIN t |->
        [t[r] EXCEPT !.Wilaya = IF @ = NaN THEN Unknown ELSE @,
                     !.Location = IF @ = NaN THEN Unknown ELSE @]]

\* lines 109-145
ImputeLocations ==
    /\ pc = "root_impute_location"
    /\ df' = UnknownFilled(LocationFromWilaya(WilayaFromLocation(df)))
    /\ pc' = "root_impute_transaction"
    /\ UNCHANGED <<entry, columns, dtype, weight, imputerVars, caught, removed,
                   surface_method, df_final, call>>

\* df['TransactionType'].mode().iloc[0], 'SALE' when no cell is observed
most_common_transaction(t) ==
    IF Observed(t, "TransactionType") = {} THEN TT_SALE
    ELSE MostFrequent(t, "TransactionType")

\* lines 147-156
ImputeTransactionTypes ==
    /\ pc = "root_impute_transaction"
    /\ df' = [r \in DOMAIN df |->
                [df[r] EXCEPT !.TransactionType =
                    IF @ = NaN THEN most_common_transaction(df) ELSE @]]
    /\ pc' = "root_clean_surface"
    /\ UNCHANGED <<entry, columns, dtype, weight, imputerVars, caught, removed,
                   surface_method, df_final, call>>

\* extract_surface followed by the range check of lines 179-181: a surface
\* outside [5, 5000] becomes missing, the row stays
CleanSurfaceOf(surface) ==
    IF surface # NaN /\ surface >= 5 /\ surface <= 5000 THEN surface ELSE NaN

\* lines 158-181
CleanSurfaces ==
    /\ pc = "root_clean_surface"
    /\ df' = [r \in DOMAIN df |->
                [df[r] EXCEPT !.CleanSurface = CleanSurfaceOf(df[r].Surface)]]
    /\ pc' = "root_impute_surface"
    /\ UNCHANGED <<entry, columns, dtype, weight, imputerVars, caught, removed,
                   surface_method, df_final, call>>

\* line 204: the encoded labels are never missing, NormalizedPrice is a
\* feature unless every cell of it is missing
available_features(t) ==
    IF Observed(t, "NormalizedPrice") = {} THEN {} ELSE {"NormalizedPrice"}

\* imputation_data.dropna().shape[0]
ImputationCompleteRows(t) ==
    SumW(weight, {r \in DOMAIN t :
                     /\ t[r].CleanSurface # NaN
                     /\ \A c \in available_features(t) : t[r][c] # NaN})

\* lines 218-227: the median surface of the row's Wilaya, then the global one
MedianFilledSurfaces(t) ==
    LET by_wilaya ==
            [r \in DOMAIN t |->
                LET m == Median(t, InWilaya(t, t[r].Wilaya), "CleanSurface")
                IN  IF t[r].CleanSurface = NaN /\ m # NaN
                    THEN [t[r] EXCEPT !.CleanSurface = m] ELSE t[r]]
        global_median_surface == Median(by_wilaya, DOMAIN t, "CleanSurface")
    IN  [r \in DOMAIN t |->
            IF by_wilaya[r].CleanSurface = NaN /\ global_median_surface # NaN
            THEN [by_wilaya[r] EXCEPT !.CleanSurface = global_median_surface]
            ELSE by_wilaya[r]]

\* lines 183-227
ImputeSurfaces ==
    /\ pc = "root_impute_surface"
    /\ LET n == ImputationCompleteRows(df)
       IN  IF NullRows(df, "CleanSurface") = {}
           THEN /\ surface_method' = [method |-> "none", complete_rows |-> n]
                /\ df' = df
           ELSE IF n > 10
           THEN /\ surface_method' = [method |-> "knn", complete_rows |-> n]
                /\ \E col \in FilledColumns(df, "CleanSurface") :
                      df' = SetColumn(df, "CleanSurface", col)
           ELSE /\ surface_method' = [method |-> "median", complete_rows |-> n]
                /\ df' = MedianFilledSurfaces(df)
    /\ pc' = "root_rooms"
    /\ UNCHANGED <<entry, columns, dtype, weight, imputerVars, caught, removed,
                   df_final, call>>

\* extract_rooms, lines 232-248: the first number of the text when it is in
\* 1..20, missing otherwise
extract_rooms(rooms_str) ==
    IF rooms_str # NaN /\ 1 <= rooms_str /\ rooms_str <= 20 THEN rooms_str
    ELSE NaN

\* Series.clip(lo, hi) on one cell
clip(v, lo, hi) == IF v < lo THEN lo ELSE IF v > hi THEN hi ELSE v

\* np.round(surface / 35) for a whole surface; a quotient is never half-way
\* since 35 is odd
RoundDiv35(surface) ==
    IF 2 * (surface % 35) < 35 THEN surface \div 35 ELSE surface \div 35 + 1

\* the estimate without its clip
estimated_rooms_unclipped(surface) == RoundDiv35(surface)

\* line 263
estimated_rooms(surface) == clip(RoundDiv35(surface), 1, 20)

\* lines 259-264: a missing room count is estimated from the row's surface
RoomsFromSurface(t) ==
    [r \in DOMAIN t |->
        IF t[r].CleanRooms = NaN /\ t[r].CleanSurface # NaN
        THEN [t[r] EXCEPT !.CleanRooms = estimated_rooms(t[r].CleanSurface)]
        ELSE t[r]]

\* lines 267-280: the median room count of the row's Wilaya, then the global
\* one, then 3
MedianFilledRooms(t) ==
    LET by_wilaya ==
            [r \in DOMAIN t |->
                LET m == Median(t, InWilaya(t, t[r].Wilaya), "CleanRooms")
                IN  IF t[r].CleanRooms = NaN /\ m # NaN
                    THEN [t[r] EXCEPT !.CleanRooms = m] ELSE t[r]]
        global_median_rooms == Median(by_wilaya, DOMAIN t, "CleanRooms")
    IN  [r \in DOMAIN t |->
            IF by_wilaya[r].CleanRooms = NaN
            THEN [by_wilaya[r] EXCEPT !.CleanRooms =
                     IF global_median_rooms # NaN THEN global_median_rooms
                     ELSE 3]
            ELSE by_wilaya[r]]

\* lines 229-280
CleanRooms ==
    /\ pc = "root_rooms"
    /\ LET extracted ==
               [r \in DOMAIN df |->
                   [df[r] EXCEPT !.CleanRooms = extract_rooms(df[r].Rooms)]]
       IN  df' = IF NullRows(extracted, "CleanRooms") = {} THEN extracted
                 ELSE MedianFilledRooms(RoomsFromSurface(extracted))
    /\ pc' = "root_standardize"
    /\ UNCHANGED <<entry, columns, dtype, weight, imputerVars, caught, removed,
                   surface_method, df_final, call>>

\* clean_location_name, lines 285-291
clean_location_name(name) == IF name = NaN THEN Unknown ELSE Title(name)

\* lines 282-296: clean_location_name on Location and Wilaya
StandardizeLocations ==
    /\ pc = "root_standardize"
    /\ df' = [r \in DOMAIN df |->
                [df[r] EXCEPT !.Location = clean_location_name(@),
                             !.Wilaya = clean_location_name(@)]]
    /\ pc' = "root_derive"
    /\ UNCHANGED <<entry, columns, dtype, weight, imputerVars, caught, removed,
                   surface_method, df_final, call>>

\* the derived column with 0 where the surface is unusable
RootPricePerSqm_else_zero(row) ==
    IF row.CleanSurface # NaN /\ row.CleanSurface > 0
    THEN Divide(row.NormalizedPrice, row.CleanSurface)
    ELSE <<0, 1>>

\* lines 321-325: np.where(surface.notna() & (surface > 0), price / surface,
\* nan)
RootPricePerSqm(row) ==
    IF row.CleanSurface # NaN /\ row.CleanSurface > 0
    THEN Divide(row.NormalizedPrice, row.CleanSurface)
    ELSE RatioNaN

\* lines 317-325
AddDerivedFeatures ==
    /\ pc = "root_derive"
    /\ df' = [r \in DOMAIN df |->
                [df[r] EXCEPT !.PricePerSqm = RootPricePerSqm(df[r])]]
    /\ pc' = "root_validate"
    /\ UNCHANGED <<entry, columns, dtype, weight, imputerVars, caught, removed,
                   surface_method, df_final, call>>

\* lines 358-362
essential_data_mask(row) ==
    \/ row.NormalizedPrice # NaN
    \/ row.Location # Unknown
    \/ row.Wilaya # Unknown

\* lines 383-388: the final columns under their final names; PriceUnit is kept
\* beside them as the record of the row's price kind
FinalRow(row) ==
    [TransactionType |-> row.TransactionType, Price |-> row.NormalizedPrice,
     PricePerSqm |-> row.PricePerSqm, Location |-> row.Location,
     Wilaya |-> row.Wilaya, Surface |-> row.CleanSurface,
     Rooms |-> row.CleanRooms, PriceUnit |-> row.PriceUnit]

\* lines 351-390
FinalValidation ==
    /\ pc = "root_validate"
    /\ LET gone == {r \in DOMAIN df : ~essential_data_mask(df[r])}
           kept == Drop(df, gone)
           median == Median(kept, DOMAIN kept, "NormalizedPrice")
           filled == [r \in DOMAIN kept |->
                        [kept[r] EXCEPT
                            !.TransactionType = IF @ = NaN THEN TT_SALE ELSE @,
                            !.NormalizedPrice = IF @ = NaN THEN median ELSE @]]
       IN  /\ df' = filled
           /\ df_final' = [r \in DOMAIN filled |-> FinalRow(filled[r])]
           /\ removed' = Record(gone, "essential_data")
    /\ pc' = "root_done"
    /\ UNCHANGED <<entry, columns, dtype, weight, imputerVars, caught,
                   surface_method, call>>

RootColumns == <<"Price", "PriceUnit", "Wilaya", "Location", "TransactionType",
                 "Surface", "Rooms">>

InitRoot ==
    /\ entry = "clean_real_estate_data"
    /\ pc = "root_normalize"
    /\ columns = RootColumns
    /\ dtype = [c \in Range(RootColumns) |->
                   IF c = "Price" THEN "num" ELSE "cat"]
    /\ weight \in RootWeights
    /\ df \in [1..Len(weight) -> RootRows]
    /\ df_imputed = NoTable
    /\ df_before = NoTable
    /\ preserve_original = TRUE
    /\ arg_target_columns = [given |-> FALSE, cols |-> <<>>]
    /\ config = NoConfig
    /\ target_columns = <<>>
    /\ i = 1
    /\ missing_info = EmptyFn
    /\ imputation_stats = EmptyFn
    /\ sel = NoSel
    /\ caught = FALSE
    /\ removed = EmptyFn
    /\ surface_method = NoSurfaceMethod
    /\ df_final = NoTable
    /\ call = NoCall

NextRoot ==
    \/ NormalizePrices
    \/ ImputePrices
    \/ FilterPrices
    \/ ImputeLocations
    \/ ImputeTransactionTypes
    \/ CleanSurfaces
    \/ ImputeSurfaces
    \/ CleanRooms
    \/ StandardizeLocations
    \/ AddDerivedFeatures
    \/ FinalValidation

SpecRoot == InitRoot /\ [][NextRoot]_vars

\* the root pipeline on the rows that vary in surface and room count
InitRootRooms ==
    /\ entry = "clean_real_estate_data"
    /\ pc = "root_normalize"
    /\ columns = RootColumns
    /\ dtype = [c \in Range(RootColumns) |->
                   IF c = "Price" THEN "num" ELSE "cat"]
    /\ weight \in RootWeights
    /\ df \in [1..Len(weight) -> RoomRows]
    /\ df_imputed = NoTable
    /\ df_before = NoTable
    /\ preserve_original = TRUE
    /\ arg_target_columns = [given |-> FALSE, cols |-> <<>>]
    /\ config = NoConfig
    /\ target_columns = <<>>
    /\ i = 1
    /\ missing_info = EmptyFn
    /\ imputation_stats = EmptyFn
    /\ sel = NoSel
    /\ caught = FALSE
    /\ removed = EmptyFn
    /\ surface_method = NoSurfaceMethod
    /\ df_final = NoTable
    /\ call = NoCall

SpecRootRooms == InitRootRooms /\ [][NextRoot]_vars

----------------------------------------------------------------------------
(* The platform pipeline: main of src/real-estate-platform/data/clean_data.py *)

PlatformColumns == <<"TransactionType", "Price", "Surface", "Rooms",
                     "Location", "Wilaya">>

\* a Price cell that is text with no digit in it, as "sur demande"; as a label
\* it sorts after the digit strings
PriceText == 99999999

\* the cells of the input file
PlatformRows ==
    [TransactionType : {NaN, TT_Vente}, Price : {NaN, 5000, 50000, PriceText},
     Surface : {NaN, 0, 48}, Rooms : {NaN, 3, 25}, Location : {NaN, 1},
     Wilaya : {NaN, 1}]

\* the dtype pd.read_csv gives a column: float64 when every cell is empty or a
\* number, object when a cell is text
ReadCsvDtype(t, c) ==
    CASE c \in {"Surface", "Rooms"} -> "num"
      [] c = "Price" ->
            IF \E r \in DOMAIN t : t[r][c] = PriceText THEN "cat" ELSE "num"
      [] OTHER -> IF Observed(t, c) = {} THEN "num" ELSE "cat"

critical_columns == {"TransactionType", "Location", "Wilaya", "Price"}

\* clean_data lines 26-56, up to the call of impute_real_estate_data
clean_data_begin ==
    /\ pc = "clean_data"
    /\ LET gone == {r \in DOMAIN df : \A c \in critical_columns : df[r][c] = NaN}
       IN  /\ df' = Drop(df, gone)
           /\ removed' = Record(gone, "all_critical_missing")
    /\ config' = RealEstateConfig(FALSE)
    /\ pc' = "call_impute"
    /\ UNCHANGED <<entry, columns, dtype, weight, df_imputed, df_before,
                   preserve_original, arg_target_columns, target_columns, i,
                   missing_info, imputation_stats, sel, caught, surface_method,
                   df_final, call>>

\* clean_data lines 60-77 and 86: the imputation returned
clean_data_return ==
    /\ pc = "fit_returned"
    /\ entry = "main"
    /\ df' = df_imputed
    /\ pc' = "main_normalize"
    /\ UNCHANGED <<entry, columns, dtype, weight, imputerVars, caught, removed,
                   surface_method, df_final, call>>

\* clean_data lines 79-86: the imputation raised
clean_data_except ==
    /\ pc = "fit_raised"
    /\ entry = "main"
    /\ caught' = TRUE
    /\ LET gone == {r \in DOMAIN df : \E c \in critical_columns : df[r][c] = NaN}
       IN  /\ df' = Drop(df, gone)
           /\ removed' = Record(gone, "fallback_dropna")
    /\ pc' = "main_normalize"
    /\ UNCHANGED <<entry, columns, dtype, weight, imputerVars, surface_method,
                   df_final, call>>

\* normalize_price(price_str), lines 88-113: the digits of the cell parsed as
\* a float, NaN when the cell is missing or has none
platform_normalize_price(price_str) ==
    IF price_str = NaN \/ price_str = PriceText THEN NaN ELSE price_str

\* main line 326
NormalizePriceColumn ==
    /\ pc = "main_normalize"
    /\ df' = [r \in DOMAIN df |->
                [df[r] EXCEPT !.Price = platform_normalize_price(@)]]
    /\ pc' = "main_filter_price"
    /\ UNCHANGED <<entry, columns, dtype, weight, imputerVars, caught, removed,
                   surface_method, df_final, call>>

min_price == 10000
max_price == 50000000

\* a comparison with NaN is False
GreaterEq(a, b) == a # NaN /\ a >= b
LessEq(a, b) == a # NaN /\ a <= b

\* the table at line 118 with its first remaining row lost as well
RealisticPrices_less_first(t) ==
    LET kept == Drop(t, {r \in DOMAIN t :
                            ~(GreaterEq(t[r].Price, min_price)
                              /\ LessEq(t[r].Price, max_price))})
    IN  IF kept = EmptyFn THEN kept ELSE Drop(kept, {SetMin(DOMAIN kept)})

\* the table filter_realistic_prices returns, line 118
RealisticPrices(t) ==
    Drop(t, {r \in DOMAIN t : ~(GreaterEq(t[r].Price, min_price)
                                /\ LessEq(t[r].Price, max_price))})

\* filter_realistic_prices, lines 115-122
filter_realistic_prices ==
    /\ pc = "main_filter_price"
    /\ LET kept == RealisticPrices(df)
       IN  /\ df' = kept
           /\ removed' = Record(DOMAIN df \ DOMAIN kept,
                                "filter_realistic_prices")
    /\ pc' = "main_surface"
    /\ UNCHANGED <<entry, columns, dtype, weight, imputerVars, caught,
                   surface_method, df_final, call>>

\* the table extract_surface_info returns, lines 128-132
RealisticSurfaces(t) ==
    Drop(t, {r \in DOMAIN t : ~(t[r].Surface = NaN
                                \/ (GreaterEq(t[r].Surface, 5)
                                    /\ LessEq(t[r].Surface, 10000)))})

\* extract_surface_info, lines 124-137
extract_surface_info ==
    /\ pc = "main_surface"
    /\ LET kept == RealisticSurfaces(df)
       IN  /\ df' = kept
           /\ removed' = Record(DOMAIN df \ DOMAIN kept, "extract_surface_info")
    /\ pc' = "main_rooms"
    /\ UNCHANGED <<entry, columns, dtype, weight, imputerVars, caught,
                   surface_method, df_final, call>>

\* the table extract_room_info returns, lines 146-150
RealisticRooms(t) ==
    Drop(t, {r \in DOMAIN t : ~(t[r].Rooms = NaN
                                \/ (GreaterEq(t[r].Rooms, 0)
                                    /\ LessEq(t[r].Rooms, 20)))})

\* extract_room_info, lines 139-155; of its room columns the table has Rooms
extract_room_info ==
    /\ pc = "main_rooms"
    /\ LET kept == RealisticRooms(df)
       IN  /\ df' = kept
           /\ removed' = Record(DOMAIN df \ DOMAIN kept, "extract_room_info")
    /\ pc' = "main_locations"
    /\ UNCHANGED <<entry, columns, dtype, weight, imputerVars, caught,
                   surface_method, df_final, call>>

\* the label "Nan": astype(str) of a missing cell, title-cased
NanLabel == 99

\* line 164 to 168 on one cell
StandardizedName(v) == IF v = NaN THEN NanLabel ELSE Title(v)

\* standardize_locations, lines 157-170
standardize_locations ==
    /\ pc = "main_locations"
    /\ df' = [r \in DOMAIN df |->
                [df[r] EXCEPT !.Location = StandardizedName(@),
                             !.Wilaya = StandardizedName(@)]]
    /\ pc' = "main_derive"
    /\ UNCHANGED <<entry, columns, dtype, weight, imputerVars, caught, removed,
                   surface_method, df_final, call>>

\* Series.replace([np.inf, -np.inf], np.nan) on one cell
replace_inf(q) == IF q = RatioInf THEN RatioNaN ELSE q

\* lines 196-197
PlatformPricePerSqm(row) == replace_inf(Divide(row.Price, row.Surface))

\* the categories with every boundary surface in the upper bucket
PropertyTypeOf_upper(surface) ==
    IF surface = NaN THEN "Unknown"
    ELSE IF surface < 50 THEN "Studio/Small Apartment"
    ELSE IF surface < 100 THEN "Medium Apartment"
    ELSE IF surface < 200 THEN "Large Apartment"
    ELSE "House/Villa"

\* lines 200-205
PropertyTypeOf(surface) ==
    IF surface = NaN THEN "Unknown"
    ELSE IF surface <= 50 THEN "Studio/Small Apartment"
    ELSE IF surface <= 100 THEN "Medium Apartment"
    ELSE IF surface <= 200 THEN "Large Apartment"
    ELSE "House/Villa"

\* add_derived_features, lines 192-207
add_derived_features ==
    /\ pc = "main_derive"
    /\ df' = [r \in DOMAIN df |->
                [c \in {"PricePerSqm", "PropertyType"} |->
                    IF c = "PricePerSqm" THEN PlatformPricePerSqm(df[r])
                    ELSE PropertyTypeOf(df[r].Surface)] @@ df[r]]
    /\ pc' = "main_select"
    /\ UNCHANGED <<entry, columns, dtype, weight, imputerVars, caught, removed,
                   surface_method, df_final, call>>

\* select_final_columns, lines 229-253, after final_data_validation, which
\* changes nothing
select_final_columns ==
    /\ pc = "main_select"
    /\ df_final' = [r \in DOMAIN df |->
                      [transaction_type |-> df[r].TransactionType,
                       price |-> df[r].Price, surface |-> df[r].Surface,
                       location |-> df[r].Location, wilaya |-> df[r].Wilaya,
                       rooms |-> df[r].Rooms,
                       price_per_sqm |-> df[r].PricePerSqm,
                       property_type |-> df[r].PropertyType]]
    /\ pc' = "main_done"
    /\ UNCHANGED <<entry, columns, dtype, weight, df, imputerVars, caught,
                   removed, surface_method, call>>

InitPlatform ==
    /\ entry = "main"
    /\ pc = "clean_data"
    /\ columns = PlatformColumns
    /\ weight = <<1, 1>>
    /\ df \in [1..2 -> PlatformRows]
    /\ dtype = [c \in Range(PlatformColumns) |-> ReadCsvDtype(df, c)]
    /\ df_imputed = NoTable
    /\ df_before = NoTable
    /\ preserve_original = TRUE
    /\ arg_target_columns = [given |-> FALSE, cols |-> <<>>]
    /\ config = NoConfig
    /\ target_columns = <<>>
    /\ i = 1
    /\ missing_info = EmptyFn
    /\ imputation_stats = EmptyFn
    /\ sel = NoSel
    /\ caught = FALSE
    /\ removed = EmptyFn
    /\ surface_method = NoSurfaceMethod
    /\ df_final = NoTable
    /\ call = NoCall

NextPlatform ==
    \/ clean_data_begin
    \/ impute_real_estate_data
    \/ fit_transform_begin
    \/ ImputeNumericalColumn
    \/ ImputeCategoricalColumn
    \/ fit_transform_return
    \/ clean_data_return
    \/ clean_data_except
    \/ NormalizePriceColumn
    \/ filter_realistic_prices
    \/ extract_surface_info
    \/ extract_room_info
    \/ standardize_locations
    \/ add_derived_features
    \/ select_final_columns

SpecPlatform == InitPlatform /\ [][NextPlatform]_vars

----------------------------------------------------------------------------
(* split_data_by_transaction_type of both pipelines, called on a cleaned
   table: the table is df_final, the two outputs are call.result *)

\* the rows of t whose label is in S
Rows(t, S) == [r \in S |-> t[r]]

\* drop('TransactionType', axis=1) on one row
WithoutTransactionType(row) ==
    [c \in DOMAIN row \ {"TransactionType"} |-> row[c]]

\* src/clean_data.py lines 392-409
root_split(t) ==
    LET sales == {r \in DOMAIN t : t[r].TransactionType = TT_Vente}
        rental == {r \in DOMAIN t : t[r].TransactionType = TT_Location}
    IN  [raised |-> FALSE,
         sales |-> [r \in sales |-> WithoutTransactionType(t[r])],
         rental |-> [r \in rental |-> WithoutTransactionType(t[r])]]

\* str.lower() of a label
Lower(label) ==
    CASE label = TT_Autre -> "autre"
      [] label = TT_Location -> "location"
      [] label = TT_Rental -> "rental"
      [] label \in {TT_SALE, TT_Sale} -> "sale"
      [] label = TT_Vente -> "vente"

\* the lists of lines 257 and 258
sale_labels == {"sale", "vente", "sell"}
\* the rental list with 'vente' in it as well
rental_labels_with_vente == {"rent", "rental", "location", "louer", "vente"}
rental_labels == {"rent", "rental", "location", "louer"}

\* the labels a cleaned table is split on
SplitLabels ==
    {NaN, TT_Autre, TT_Location, TT_Rental, TT_SALE, TT_Sale, TT_Vente}

\* platform lines 255-264: the .str accessor raises on a column that holds no
\* string (every cell missing, or a column of numbers); a missing cell is in
\* neither list
platform_split(t) ==
    IF \/ t # EmptyFn /\ \A r \in DOMAIN t : t[r].transaction_type = NaN
       \/ \E r \in DOMAIN t : t[r].transaction_type \notin SplitLabels
    THEN [raised |-> TRUE, sales |-> EmptyFn, rental |-> EmptyFn]
    ELSE LET has(r, list) == /\ t[r].transaction_type # NaN
                             /\ Lower(t[r].transaction_type) \in list
         IN  [raised |-> FALSE,
              sales |-> Rows(t, {r \in DOMAIN t : has(r, sale_labels)}),
              rental |-> Rows(t, {r \in DOMAIN t : has(r, rental_labels)})]

\* the copies of each row: the table of 60 + 40 rows, or three rows
SplitWeights == {<<60, 40>>, <<1, 1, 1>>}

InitSplit ==
    /\ entry \in {"root_split", "platform_split"}
    /\ pc = "split"
    /\ weight \in SplitWeights
    /\ \E labels \in [1..Len(weight) -> SplitLabels] :
          df_final = [r \in 1..Len(weight) |->
                         IF entry = "root_split"
                         THEN [TransactionType |-> labels[r], Price |-> 100000 + r]
                         ELSE [transaction_type |-> labels[r],
                               price |-> 100000 + r]]
    /\ call = [fn |-> "split_data_by_transaction_type"]
    /\ columns = <<>>
    /\ dtype = EmptyFn
    /\ df = NoTable
    /\ df_imputed = NoTable
    /\ df_before = NoTable
    /\ preserve_original = TRUE
    /\ arg_target_columns = [given |-> FALSE, cols |-> <<>>]
    /\ config = NoConfig
    /\ target_columns = <<>>
    /\ i = 1
    /\ missing_info = EmptyFn
    /\ imputation_stats = EmptyFn
    /\ sel = NoSel
    /\ caught = FALSE
    /\ removed = EmptyFn
    /\ surface_method = NoSurfaceMethod

split_data_by_transaction_type ==
    /\ pc = "split"
    /\ LET out == IF entry = "root_split" THEN root_split(df_final)
                  ELSE platform_split(df_final)
       IN  /\ call' = [fn |-> call.fn, result |-> out]
           /\ pc' = IF out.raised THEN "split_raised" ELSE "split_done"
    /\ UNCHANGED <<entry, columns, dtype, weight, df, imputerVars, caught,
                   removed, surface_method, df_final>>

NextSplit == split_data_by_transaction_type

SpecSplit == InitSplit /\ [][NextSplit]_vars

----------------------------------------------------------------------------
(* normalize_price of the root pipeline, called on one row *)

\* raw prices: missing, negative, zero and positive
RawPrices == {NaN, -5, -4, -3, -2, 0, 1, 2}

\* price units: the five the function names, another one, and a missing one
PriceUnits == {"MILLION", "BILLION", "UNIT", "UNIT_PER_SQUARE",
               "MILLION_PER_SQUARE", "THOUSAND", "NaN"}

InitNormalize ==
    /\ entry = "normalize_price"
    /\ pc = "normalize"
    /\ \E p \in RawPrices, u \in PriceUnits :
          call = [fn |-> "normalize_price", row |-> [Price |-> p, PriceUnit |-> u]]
    /\ columns = <<>>
    /\ dtype = EmptyFn
    /\ weight = <<>>
    /\ df = NoTable
    /\ df_imputed = NoTable
    /\ df_before = NoTable
    /\ preserve_original = TRUE
    /\ arg_target_columns = [given |-> FALSE, cols |-> <<>>]
    /\ config = NoConfig
    /\ target_columns = <<>>
    /\ i = 1
    /\ missing_info = EmptyFn
    /\ imputation_stats = EmptyFn
    /\ sel = NoSel
    /\ caught = FALSE
    /\ removed = EmptyFn
    /\ surface_method = NoSurfaceMethod
    /\ df_final = NoTable

NormalizeOneRow ==
    /\ pc = "normalize"
    /\ call' = [fn |-> call.fn, row |-> call.row,
                result |-> normalize_price(call.row)]
    /\ pc' = "normalized"
    /\ UNCHANGED <<entry, columns, dtype, weight, df, imputerVars, caught,
                   removed, surface_method, df_final>>

NextNormalize == NormalizeOneRow

SpecNormalize == InitNormalize /\ [][NextNormalize]_vars

----------------------------------------------------------------------------
(* analyze_missing_data of the imputer, seen from one column: the number of
   its missing cells and the number of rows of the table *)

\* line 38: (missing_count / total_rows) * 100, as the pair <<numerator,
\* denominator>>; on a table without rows the quotient is not a number
missing_percentage(missing_count, total_rows) ==
    <<100 * missing_count, total_rows>>

\* percentage == k and percentage < k; both are false of a non-number
PctEq(p, k) == p[2] # 0 /\ p[1] = k * p[2]
PctLess(p, k) == p[2] # 0 /\ p[1] < k * p[2]

\* the recommendation with every threshold counted into the lower bucket
recommendation_inclusive(missing_count, total_rows) ==
    LET p == missing_percentage(missing_count, total_rows)
    IN  IF PctEq(p, 0) THEN "No missing values"
        ELSE IF PctLess(p, 5) \/ PctEq(p, 5)
             THEN "Simple imputation (mean/mode) sufficient"
        ELSE IF PctLess(p, 20) \/ PctEq(p, 20)
             THEN "KNN or Iterative imputation recommended"
        ELSE IF PctLess(p, 50) \/ PctEq(p, 50)
             THEN "Advanced imputation with caution"
        ELSE "Consider dropping column or advanced ML imputation"

\* lines 48-59
recommendation(missing_count, total_rows) ==
    LET p == missing_percentage(missing_count, total_rows)
    IN  IF PctEq(p, 0) THEN "No missing values"
        ELSE IF PctLess(p, 5) THEN "Simple imputation (mean/mode) sufficient"
        ELSE IF PctLess(p, 20) THEN "KNN or Iterative imputation recommended"
        ELSE IF PctLess(p, 50) THEN "Advanced imputation with caution"
        ELSE "Consider dropping column or advanced ML imputation"

InitAnalyze ==
    /\ entry = "analyze_missing_data"
    /\ pc = "analyze"
    /\ \E n \in 0..MaxAnalyzeRows : \E m \in 0..n :
          call = [fn |-> "analyze_missing_data", missing_count |-> m,
                  total_rows |-> n]
    /\ columns = <<>>
    /\ dtype = EmptyFn
    /\ weight = <<>>
    /\ df = NoTable
    /\ df_imputed = NoTable
    /\ df_before = NoTable
    /\ preserve_original = TRUE
    /\ arg_target_columns = [given |-> FALSE, cols |-> <<>>]
    /\ config = NoConfig
    /\ target_columns = <<>>
    /\ i = 1
    /\ missing_info = EmptyFn
    /\ imputation_stats = EmptyFn
    /\ sel = NoSel
    /\ caught = FALSE
    /\ removed = EmptyFn
    /\ surface_method = NoSurfaceMethod
    /\ df_final = NoTable

analyze_missing_data ==
    /\ pc = "analyze"
    /\ call' = [fn |-> call.fn, missing_count |-> call.missing_count,
                total_rows |-> call.total_rows,
                result |-> recommendation(call.missing_count,
                                          call.total_rows)]
    /\ pc' = "analyzed"
    /\ UNCHANGED <<entry, columns, dtype, weight, df, imputerVars, caught,
                   removed, surface_method, df_final>>

NextAnalyze == analyze_missing_data

SpecAnalyze == InitAnalyze /\ [][NextAnalyze]_vars

----------------------------------------------------------------------------
(* get_imputation_report of the imputer, called once fit_transform is over *)

\* self.imputation_stats as a dict: the entry of every imputed column, and
\* the two entries fit_transform stores first (lines 139-141)
imputation_stats_dict ==
    imputation_stats
    @@ [k \in {"missing_analysis", "recommendations"} |->
          IF k = "missing_analysis" THEN missing_info
          ELSE [c \in DOMAIN missing_info |->
                  recommendation(missing_info[c], NRows(df_before))]]

\* lines 240-241: the entries that are a dict with a 'strategy'
StrategyEntries(stats) ==
    {column \in DOMAIN stats : "strategy" \in DOMAIN stats[column]}

\* lines 236-245 and 247-253
ReportSummary(stats, total_columns_imputed) ==
    LET entries == StrategyEntries(stats)
        total_missing_before ==
            SumW([c \in entries |-> stats[c].missing_before], entries)
        total_missing_after ==
            SumW([c \in entries |-> stats[c].missing_after], entries)
    IN  [total_columns_imputed |-> total_columns_imputed,
         strategies_used |->
            [st \in {stats[c].strategy : c \in entries} |->
                Cardinality({c \in entries : stats[c].strategy = st})],
         total_missing_values_before |-> total_missing_before,
         total_missing_values_after |-> total_missing_after,
         imputation_success_rate |->
            IF total_missing_before > 0
            THEN Divide(100 * (total_missing_before - total_missing_after),
                        total_missing_before)
            ELSE Divide(100, 1)]

\* the report with every key of imputation_stats counted as an imputed column
ImputationReport_every_key ==
    LET stats == imputation_stats_dict
    IN  [summary |-> ReportSummary(stats, Cardinality(DOMAIN stats)),
         details |-> stats]

\* lines 224-255
ImputationReport ==
    LET stats == imputation_stats_dict
        total_columns_imputed ==
            Cardinality({col \in DOMAIN stats :
                            col \notin {"missing_analysis", "recommendations"}})
    IN  [summary |-> ReportSummary(stats, total_columns_imputed),
         details |-> stats]

get_imputation_report ==
    /\ pc \in {"fit_returned", "fit_raised"}
    /\ entry \in {"fit_transform", "impute_real_estate_data"}
    /\ call' = [fn |-> "get_imputation_report", result |-> ImputationReport]
    /\ pc' = "reported"
    /\ UNCHANGED <<entry, columns, dtype, weight, df, imputerVars, caught,
                   removed, surface_method, df_final>>

\* the imputer run on a table, and its report asked for afterwards
NextReport ==
    \/ impute_real_estate_data
    \/ fit_transform_begin
    \/ ImputeNumericalColumn
    \/ ImputeCategoricalColumn
    \/ fit_transform_return
    \/ get_imputation_report

SpecReport == InitFit /\ [][NextReport]_vars

----------------------------------------------------------------------------
(* The two cleaning pipelines side by side *)

InitPipelines == InitRoot \/ InitPlatform

NextPipelines == NextRoot \/ NextPlatform

SpecPipelines == InitPipelines /\ [][NextPipelines]_vars

----------------------------------------------------------------------------
(* add_derived_features of the platform pipeline, called on one row *)

InitDerive ==
    /\ entry = "add_derived_features"
    /\ pc = "derive"
    /\ \E p \in {NaN, 50000}, s \in {NaN} \cup 0..MaxDerivedSurface :
          call = [fn |-> "add_derived_features",
                  row |-> [Price |-> p, Surface |-> s]]
    /\ columns = <<>>
    /\ dtype = EmptyFn
    /\ weight = <<>>
    /\ df = NoTable
    /\ df_imputed = NoTable
    /\ df_before = NoTable
    /\ preserve_original = TRUE
    /\ arg_target_columns = [given |-> FALSE, cols |-> <<>>]
    /\ config = NoConfig
    /\ target_columns = <<>>
    /\ i = 1
    /\ missing_info = EmptyFn
    /\ imputation_stats = EmptyFn
    /\ sel = NoSel
    /\ caught = FALSE
    /\ removed = EmptyFn
    /\ surface_method = NoSurfaceMethod
    /\ df_final = NoTable

\* lines 192-207 on the row
DeriveOneRow ==
    /\ pc = "derive"
    /\ call' = [fn |-> call.fn, row |-> call.row,
                result |-> [Price |-> call.row.Price,
                            Surface |-> call.row.Surface,
                            PricePerSqm |-> PlatformPricePerSqm(call.row),
                            PropertyType |->
                                PropertyTypeOf(call.row.Surface)]]
    /\ pc' = "derived"
    /\ UNCHANGED <<entry, columns, dtype, weight, df, imputerVars, caught,
                   removed, surface_method, df_final>>

NextDerive == DeriveOneRow

SpecDerive == InitDerive /\ [][NextDerive]_vars

----------------------------------------------------------------------------
(* main of the platform pipeline from its first line: load_data, the cleaning
   steps above, then the split and save_cleaned_data *)

\* the input file main is given: absent, present but not readable as a CSV,
\* or a CSV file
InputFiles == {"missing", "unreadable", "csv"}

\* the try of load_data with only a missing file caught
read_csv_raises_when_missing(input_file) == input_file = "missing"

\* load_data lines 18-24: pd.read_csv raises and the except returns None
read_csv_raises(input_file) == input_file # "csv"

\* the files save_cleaned_data writes, lines 270-274
PlatformOutputFiles == {"sales_data_cleaned.csv", "rental_data_cleaned.csv"}

InitMain ==
    /\ entry = "main"
    /\ pc = "main_load"
    /\ \E f \in InputFiles :
          call = [fn |-> "main", input_file |-> f, written |-> {},
                  result |-> "running"]
    /\ columns = <<>>
    /\ weight = <<>>
    /\ df = NoTable
    /\ dtype = EmptyFn
    /\ df_imputed = NoTable
    /\ df_before = NoTable
    /\ preserve_original = TRUE
    /\ arg_target_columns = [given |-> FALSE, cols |-> <<>>]
    /\ config = NoConfig
    /\ target_columns = <<>>
    /\ i = 1
    /\ missing_info = EmptyFn
    /\ imputation_stats = EmptyFn
    /\ sel = NoSel
    /\ caught = FALSE
    /\ removed = EmptyFn
    /\ surface_method = NoSurfaceMethod
    /\ df_final = NoTable

\* main lines 318-320 with load_data, lines 16-24
load_data ==
    /\ pc = "main_load"
    /\ IF read_csv_raises(call.input_file)
       THEN /\ pc' = "main_aborted"
            /\ call' = [call EXCEPT !.result = "None"]
            /\ UNCHANGED <<columns, dtype, weight, df>>
       ELSE /\ pc' = "clean_data"
            /\ columns' = PlatformColumns
            /\ weight' = <<1, 1>>
            /\ df' \in [1..2 -> PlatformRows]
            /\ dtype' = [c \in Range(PlatformColumns) |-> ReadCsvDtype(df', c)]
            /\ UNCHANGED call
    /\ UNCHANGED <<entry, imputerVars, caught, removed, surface_method,
                   df_final>>

\* main lines 345-355: the split, then save_cleaned_data, lines 266-281
split_and_save ==
    /\ pc = "main_done"
    /\ call.fn = "main"
    /\ LET out == platform_split(df_final)
       IN  IF out.raised
           THEN /\ pc' = "main_raised"
                /\ call' = [call EXCEPT !.result = "raised"]
           ELSE /\ pc' = "main_saved"
                /\ call' = [call EXCEPT !.written = PlatformOutputFiles,
                                        !.result = "saved"]
    /\ UNCHANGED <<entry, columns, dtype, weight, df, imputerVars, caught,
                   removed, surface_method, df_final>>

NextMain ==
    \/ load_data
    \/ NextPlatform
    \/ split_and_save

SpecMain == InitMain /\ [][NextMain]_vars

----------------------------------------------------------------------------
(* main of the root pipeline: clean_real_estate_data, then the split and the
   three files; df_before keeps the table as it was read *)

InitRootMain ==
    /\ entry = "clean_real_estate_data"
    /\ pc = "root_normalize"
    /\ columns = RootColumns
    /\ dtype = [c \in Range(RootColumns) |->
                   IF c = "Price" THEN "num" ELSE "cat"]
    /\ weight \in RootWeights
    /\ df \in [1..Len(weight) -> RootRows]
    /\ df_imputed = NoTable
    /\ df_before = df
    /\ preserve_original = TRUE
    /\ arg_target_columns = [given |-> FALSE, cols |-> <<>>]
    /\ config = NoConfig
    /\ target_columns = <<>>
    /\ i = 1
    /\ missing_info = EmptyFn
    /\ imputation_stats = EmptyFn
    /\ sel = NoSel
    /\ caught = FALSE
    /\ removed = EmptyFn
    /\ surface_method = NoSurfaceMethod
    /\ df_final = NoTable
    /\ call = [fn |-> "main", written |-> {}]

\* main lines 420-439
root_split_and_save ==
    /\ pc = "root_done"
    /\ call.fn = "main"
    /\ call' = [fn |-> "main",
                written |-> {"immobilier_cleaned_full.csv",
                             "immobilier_sales.csv", "immobilier_rental.csv"},
                result |-> root_split(df_final)]
    /\ pc' = "root_saved"
    /\ UNCHANGED <<entry, columns, dtype, weight, df, imputerVars, caught,
                   removed, surface_method, df_final>>

NextRootMain ==
    \/ NextRoot
    \/ root_split_and_save

SpecRootMain == InitRootMain /\ [][NextRootMain]_vars

----------------------------------------------------------------------------
(* Claims about the imputation engine *)

\* the columns fit_transform has imputed
ImputedColumns == DOMAIN imputation_stats

\* C1: after fit_transform, every imputed column has at least as many
\* non-null cells as before the call, and every cell that was non-null before
\* the call holds the same value.
C1_ObservedValuesKept ==
    pc = "fit_returned" =>
        \A c \in ImputedColumns :
            /\ MissingCount(df_imputed, c) <= MissingCount(df_before, c)
            /\ \A r \in DOMAIN df_before :
                  df_before[r][c] # NaN => df_imputed[r][c] = df_before[r][c]

\* C3: through impute_real_estate_data the strategy recorded for each of the
\* four real-estate columns is the one its config names: Price knn, Location
\* mode, Surface iterative, Rooms knn.
C3_DomainOverrides ==
    (pc = "fit_returned" /\ entry = "impute_real_estate_data") =>
        /\ "Price" \in ImputedColumns =>
              imputation_stats["Price"].strategy = config.price_strategy
        /\ "Location" \in ImputedColumns =>
              imputation_stats["Location"].strategy = config.location_strategy
        /\ "Surface" \in ImputedColumns =>
              imputation_stats["Surface"].strategy = config.surface_strategy
        /\ "Rooms" \in ImputedColumns =>
              imputation_stats["Rooms"].strategy = config.rooms_strategy

\* C4: with strategy 'auto' a numeric column gets simple below 5% missing, knn
\* from 5% to below 20%, iterative from 20%; a categorical column gets mode
\* below 10% and knn from 10%; a numeric column with 15% missing gets knn.
C4_AutoStrategy ==
    sel.strategy # "none" =>
        LET p100 == 100 * sel.m
            n == sel.n
        IN  /\ (sel.kind = "num" /\ p100 < 5 * n) => sel.strategy = "simple"
            /\ (sel.kind = "num" /\ 5 * n <= p100 /\ p100 < 20 * n) =>
                  sel.strategy = "knn"
            /\ (sel.kind = "num" /\ 20 * n <= p100) =>
                  sel.strategy = "iterative"
            /\ (sel.kind = "cat" /\ p100 < 10 * n) => sel.strategy = "mode"
            /\ (sel.kind = "cat" /\ 10 * n <= p100) => sel.strategy = "knn"
            /\ (sel.kind = "num" /\ p100 = 15 * n) => sel.strategy = "knn"

\* a numeric column with 3 of 20 cells missing (15%) was given knn
C4_Witness ==
    sel.kind = "num" /\ sel.n = 20 /\ sel.m = 3 /\ sel.strategy = "knn"

\* C5: a numeric column with 15% missing, on a table with only 6 complete
\* rows, is not imputed by k-nearest-neighbor.
C5_FewCompleteRowsFallback ==
    pc = "fit_returned" =>
        \A c \in ImputedColumns :
            (/\ dtype[c] = "num"
             /\ 100 * MissingCount(df_before, c) = 15 * NRows(df_before)
             /\ CompleteRows(df_before) = 6)
            => imputation_stats[c].strategy # "knn"

----------------------------------------------------------------------------
(* Claims about the cleaning pipelines *)

\* the rows of df that fit_transform has written to, compared with the table
\* clean_data passed in
ImputedRows == {r \in DOMAIN df : df[r] # df_before[r]}

\* C2: when impute_real_estate_data raises during clean_data, the table
\* clean_data returns holds exactly the rows that had every critical column
\* before imputation started, and every returned row is as it was then.
C2_FallbackReturnsNoImputedValue ==
    (pc = "main_normalize" /\ caught) =>
        /\ ImputedRows = {}
        /\ DOMAIN df = {r \in DOMAIN df_before :
                           \A c \in critical_columns : df_before[r][c] # NaN}

\* C6: when the root pipeline has surfaces to impute, it uses the
\* k-nearest-neighbor imputer exactly when the imputation table has at least
\* 10 complete rows, and the medians otherwise.
C6_KnnFromTenCompleteRows ==
    (entry = "clean_real_estate_data" /\ surface_method.method # "none") =>
        /\ surface_method.complete_rows >= 10 => surface_method.method = "knn"
        /\ surface_method.complete_rows < 10 => surface_method.method = "median"

\* C7: in the final table of each pipeline, a row with price and surface
\* present and surface > 0 has price-per-area equal to price / surface.
C7_PricePerAreaIsQuotient ==
    /\ pc = "root_done" =>
          \A r \in DOMAIN df_final :
              (/\ df_final[r].Price # NaN
               /\ df_final[r].Surface # NaN
               /\ df_final[r].Surface > 0)
              => df_final[r].PricePerSqm =
                     Divide(df_final[r].Price, df_final[r].Surface)
    /\ pc = "main_done" =>
          \A r \in DOMAIN df_final :
              (/\ df_final[r].price # NaN
               /\ df_final[r].surface # NaN
               /\ df_final[r].surface > 0)
              => df_final[r].price_per_sqm =
                     Divide(df_final[r].price, df_final[r].surface)

\* the pipeline has computed the price-per-area column of df
RootDerived == pc \in {"root_validate", "root_done"}
PlatformDerived == pc \in {"main_select", "main_done"}

\* C8: in both pipelines, once price-per-area is computed, a row whose surface
\* is missing or 0 has a missing price-per-area, and no row has an infinite
\* one.
C8_NoPricePerAreaWithoutSurface ==
    /\ RootDerived =>
          \A r \in DOMAIN df :
              /\ df[r].CleanSurface \in {NaN, 0} => df[r].PricePerSqm = RatioNaN
              /\ df[r].PricePerSqm # RatioInf
    /\ PlatformDerived =>
          \A r \in DOMAIN df :
              /\ df[r].Surface \in {NaN, 0} => df[r].PricePerSqm = RatioNaN
              /\ df[r].PricePerSqm # RatioInf
    /\ pc = "root_done" =>
          \A r \in DOMAIN df_final :
              /\ df_final[r].Surface \in {NaN, 0} =>
                    df_final[r].PricePerSqm = RatioNaN
              /\ df_final[r].PricePerSqm # RatioInf
    /\ pc = "main_done" =>
          \A r \in DOMAIN df_final :
              /\ df_final[r].surface \in {NaN, 0} =>
                    df_final[r].price_per_sqm = RatioNaN
              /\ df_final[r].price_per_sqm # RatioInf

\* the root pipeline has ended with a row whose raw surface was 0: it has a
\* price, no surface and no price-per-area
C8_Witness ==
    /\ pc = "root_done"
    /\ \E r \in DOMAIN df_final :
          /\ df_final[r].Price # NaN
          /\ df[r].Surface = 0
          /\ df_final[r].Surface = NaN
          /\ df_final[r].PricePerSqm = RatioNaN

\* C9: a row removed by the price (surface, room count) range filter of
\* either pipeline had a non-null price (surface, room count) out of range.
C9_RangeFiltersKeepMissing ==
    \A r \in DOMAIN removed :
        LET row == removed[r].row
            by == removed[r].by
        IN  /\ by = "price_filter" =>
                  /\ row.NormalizedPrice # NaN
                  /\ ~PriceFilterKeeps(row)
            /\ by = "filter_realistic_prices" =>
                  /\ row.Price # NaN
                  /\ (row.Price < min_price \/ row.Price > max_price)
            /\ by = "extract_surface_info" =>
                  /\ row.Surface # NaN
                  /\ (row.Surface < 5 \/ row.Surface > 10000)
            /\ by = "extract_room_info" =>
                  /\ row.Rooms # NaN
                  /\ (row.Rooms < 0 \/ row.Rooms > 20)

\* C10: in the final table of the root pipeline a non-null price lies in
\* [100000, 1e9] when the row's unit is not per-area and in [5000, 2e6] when it
\* is UNIT_PER_SQUARE or MILLION_PER_SQUARE.
C10_FinalPricesWithinBounds ==
    pc = "root_done" =>
        \A r \in DOMAIN df_final :
            df_final[r].Price # NaN =>
                IF per_sqm_mask(df_final[r])
                THEN /\ df_final[r].Price >= MIN_PRICE_PER_SQM
                     /\ df_final[r].Price <= MAX_PRICE_PER_SQM
                ELSE /\ df_final[r].Price >= MIN_PRICE
                     /\ df_final[r].Price <= MAX_PRICE

----------------------------------------------------------------------------
(* Claims about bounds, filters and the split *)

InRange(v, lo, hi) == v = NaN \/ (lo <= v /\ v <= hi)

\* the positions of the root pipeline from the end of surface cleaning, and
\* from the end of the room step
SurfacesCleaned ==
    pc \in {"root_impute_surface", "root_rooms", "root_standardize",
            "root_derive", "root_validate", "root_done"}
RoomsCleaned ==
    pc \in {"root_standardize", "root_derive", "root_validate", "root_done"}

\* C11: in the root pipeline, from the end of surface cleaning on every
\* non-null surface is in [5, 5000], from the end of the room step on every
\* non-null room count is in [1, 20], and so it is in the final table.
C11_SurfacesAndRoomsWithinBounds ==
    /\ (entry = "clean_real_estate_data" /\ SurfacesCleaned) =>
          \A r \in DOMAIN df : InRange(df[r].CleanSurface, 5, 5000)
    /\ (entry = "clean_real_estate_data" /\ RoomsCleaned) =>
          \A r \in DOMAIN df : InRange(df[r].CleanRooms, 1, 20)
    /\ pc = "root_done" =>
          \A r \in DOMAIN df_final :
              /\ InRange(df_final[r].Surface, 5, 5000)
              /\ InRange(df_final[r].Rooms, 1, 20)

\* the final table has a row read with surface 1000 and room count 25: the
\* room count was dropped and estimated anew as 20, and another row read
\* with surface 6000 had its surface filled
C11_Witness ==
    /\ pc = "root_done"
    /\ \E r \in DOMAIN df_final :
          /\ df[r].Surface = 1000 /\ df[r].Rooms = 25
          /\ df_final[r].Rooms = 20
    /\ \E r \in DOMAIN df_final :
          /\ df[r].Surface = 6000
          /\ df_final[r].Surface = 1000

\* the platform pipeline has run its three range filters
PlatformFiltered ==
    pc \in {"main_locations", "main_derive", "main_select", "main_done"}

\* C12: in the platform pipeline, once the price, surface and room filters have
\* run, a retained non-null price is in [100000, 1e9], a retained non-null
\* surface in [5, 5000] and a retained non-null room count in [1, 20].
C12_PlatformFiltersUseBoundsTable ==
    (entry = "main" /\ PlatformFiltered) =>
        \A r \in DOMAIN df :
            /\ InRange(df[r].Price, 100000, 1000000000)
            /\ InRange(df[r].Surface, 5, 5000)
            /\ InRange(df[r].Rooms, 1, 20)

\* C13: each range filter is idempotent: on the table a filter is about to
\* run on, running it twice gives the table running it once gives, and the
\* table a filter has returned is left as it is by the same filter.
C13_RangeFiltersIdempotent ==
    /\ pc = "root_filter_price" =>
          PriceFiltered(PriceFiltered(df)) = PriceFiltered(df)
    /\ pc = "root_impute_location" => PriceFiltered(df) = df
    /\ pc = "main_filter_price" =>
          RealisticPrices(RealisticPrices(df)) = RealisticPrices(df)
    /\ pc = "main_surface" =>
          /\ RealisticPrices(df) = df
          /\ RealisticSurfaces(RealisticSurfaces(df)) = RealisticSurfaces(df)
    /\ pc = "main_rooms" =>
          /\ RealisticSurfaces(df) = df
          /\ RealisticRooms(RealisticRooms(df)) = RealisticRooms(df)
    /\ pc = "main_locations" => RealisticRooms(df) = df

\* filter_realistic_prices has removed one row and kept the other
C13_Witness ==
    /\ pc = "main_surface"
    /\ DOMAIN df # {}
    /\ \E r \in DOMAIN removed : removed[r].by = "filter_realistic_prices"

\* the labels that name a sale and those that name a rental
SaleLabel(l) == l \in {TT_Sale, TT_SALE, TT_Vente}
RentalLabel(l) == l \in {TT_Rental, TT_Location}

\* the transaction label of a row of the table that was split
LabelOfRow(r) ==
    IF entry = "root_split" THEN df_final[r].TransactionType
    ELSE df_final[r].transaction_type

\* C14: when every row of the cleaned table is labelled as a sale or as a
\* rental, the sales output holds exactly the sale rows and the rental output
\* exactly the rental rows, so the two sizes sum to the size of the input.
C14_SplitIsAPartition ==
    (pc = "split_done"
     /\ \A r \in DOMAIN df_final : SaleLabel(LabelOfRow(r))
                                   \/ RentalLabel(LabelOfRow(r))) =>
        /\ DOMAIN call.result.sales =
              {r \in DOMAIN df_final : SaleLabel(LabelOfRow(r))}
        /\ DOMAIN call.result.rental =
              {r \in DOMAIN df_final : RentalLabel(LabelOfRow(r))}
        /\ SumW(weight, DOMAIN call.result.sales)
              + SumW(weight, DOMAIN call.result.rental) = NRows(df_final)

\* a row of an output is the input row of the same label, cell by cell
SameCells(out, r) == \A c \in DOMAIN out[r] : out[r][c] = df_final[r][c]

\* C15: whatever the labels, no row is in both outputs of the split and every
\* output row is a row of the input.
C15_SplitOutputsDisjoint ==
    pc = "split_done" =>
        /\ DOMAIN call.result.sales \cap DOMAIN call.result.rental = {}
        /\ DOMAIN call.result.sales \subseteq DOMAIN df_final
        /\ DOMAIN call.result.rental \subseteq DOMAIN df_final
        /\ \A r \in DOMAIN call.result.sales : SameCells(call.result.sales, r)
        /\ \A r \in DOMAIN call.result.rental :
              SameCells(call.result.rental, r)

\* the platform split has put a 'Vente' row in the sales output, a 'Location'
\* row in the rental output and a row of unknown label in neither
C15_Witness ==
    /\ pc = "split_done"
    /\ entry = "platform_split"
    /\ \E a, b, c \in DOMAIN df_final :
          /\ LabelOfRow(a) = TT_Vente /\ a \in DOMAIN call.result.sales
          /\ LabelOfRow(b) = TT_Location /\ b \in DOMAIN call.result.rental
          /\ LabelOfRow(c) = TT_Autre
          /\ c \notin DOMAIN call.result.sales \cup DOMAIN call.result.rental

\* C16: normalize_price returns missing for a raw price that is absent or
\* <= 0; otherwise the raw price times 1,000,000 for MILLION and
\* MILLION_PER_SQUARE, times 1,000,000,000 for BILLION, and the raw price
\* itself for any other or missing unit; a non-null result is > 0.
C16_NormalizePrice ==
    pc = "normalized" =>
        LET price == call.row.Price
            unit == call.row.PriceUnit
        IN  /\ (price = NaN \/ price <= 0) => call.result = NaN
            /\ (price # NaN /\ price > 0) =>
                  call.result =
                      IF unit \in {"MILLION", "MILLION_PER_SQUARE"}
                      THEN price * 1000000
                      ELSE IF unit = "BILLION" THEN price * 1000000000
                      ELSE price
            /\ call.result # NaN => call.result > 0

\* 2 MILLION_PER_SQUARE was normalized to 2,000,000
C16_Witness ==
    /\ pc = "normalized"
    /\ call.row = [Price |-> 2, PriceUnit |-> "MILLION_PER_SQUARE"]
    /\ call.result = 2000000

\* the Locations the rows of the input table give for wilaya w, and the
\* Wilayas they give for location l, as standardize_locations writes them
SiblingLocations(w) ==
    {StandardizedName(df_before[x].Location) :
        x \in {y \in DOMAIN df_before : /\ w # NaN
                                        /\ df_before[y].Wilaya = w
                                        /\ df_before[y].Location # NaN}}
SiblingWilayas(l) ==
    {StandardizedName(df_before[x].Wilaya) :
        x \in {y \in DOMAIN df_before : /\ l # NaN
                                        /\ df_before[y].Location = l
                                        /\ df_before[y].Wilaya # NaN}}

\* C17: in the final table of both pipelines no row has a null Location or
\* Wilaya, and a place that was missing in the input is one its sibling
\* field resolves, or "Unknown", or for a Location "Unknown-<wilaya>" with the
\* row's own Wilaya.
C17_PlacesNeverNull ==
    /\ pc = "root_done" =>
          \A r \in DOMAIN df_final :
              LET l == df_final[r].Location
                  w == df_final[r].Wilaya
              IN  /\ l # NaN /\ w # NaN
                  /\ w \in {Title(x) : x \in RootWilayas} \cup {Unknown}
                  /\ l \in {Title(x) : x \in RootLocations}
                           \cup {Unknown, UnknownIn(w)}
                  /\ l = Unknown => w = Unknown
                  /\ l = UnknownIn(w) => w # Unknown
    /\ pc = "main_done" =>
          \A r \in DOMAIN df_final :
              LET l == df_final[r].location
                  w == df_final[r].wilaya
              IN  /\ l \notin {NaN, NanLabel}
                  /\ w \notin {NaN, NanLabel}
                  /\ df_before[r].Wilaya = NaN =>
                        w \in SiblingWilayas(df_before[r].Location)
                              \cup {Unknown}
                  /\ df_before[r].Location = NaN =>
                        l \in SiblingLocations(df_before[r].Wilaya)
                              \cup {Unknown, UnknownIn(w)}

\* the part of C17 that holds: no place of a final table is null or the text
\* of a missing cell
PlacesNotNull ==
    /\ pc = "root_done" =>
          \A r \in DOMAIN df_final :
              df_final[r].Location # NaN /\ df_final[r].Wilaya # NaN
    /\ pc = "main_done" =>
          \A r \in DOMAIN df_final :
              /\ df_final[r].location \notin {NaN, NanLabel}
              /\ df_final[r].wilaya \notin {NaN, NanLabel}

\* C18: in both pipelines no step taken once price-per-area is computed
\* writes the price or the surface of a row: every imputation or fill of the
\* two base fields comes before the derived-feature step.
C18_BaseFieldsBeforeDerived ==
    [][/\ RootDerived =>
             \A r \in DOMAIN df' :
                 /\ df'[r].NormalizedPrice = df[r].NormalizedPrice
                 /\ df'[r].CleanSurface = df[r].CleanSurface
       /\ PlatformDerived =>
             \A r \in DOMAIN df' :
                 /\ df'[r].Price = df[r].Price
                 /\ df'[r].Surface = df[r].Surface]_vars

----------------------------------------------------------------------------
(* Claims about the imputer's analysis and report *)

\* C19: with p = 100 * missing / total of a column of a table with rows, the
\* recommendation is "No missing values" exactly when p = 0, simple
\* imputation exactly when 0 < p < 5, KNN or iterative exactly when
\* 5 <= p < 20, advanced with caution exactly when 20 <= p < 50, and drop or
\* advanced ML exactly when p >= 50: one bucket for every p of [0, 100].
C19_RecommendationBuckets ==
    (pc = "analyzed" /\ call.total_rows > 0) =>
        LET m == call.missing_count
            n == call.total_rows
        IN  /\ 0 <= 100 * m /\ 100 * m <= 100 * n
            /\ call.result = "No missing values" <=> m = 0
            /\ call.result = "Simple imputation (mean/mode) sufficient"
                  <=> (0 < m /\ 100 * m < 5 * n)
            /\ call.result = "KNN or Iterative imputation recommended"
                  <=> (5 * n <= 100 * m /\ 100 * m < 20 * n)
            /\ call.result = "Advanced imputation with caution"
                  <=> (20 * n <= 100 * m /\ 100 * m < 50 * n)
            /\ call.result
                  = "Consider dropping column or advanced ML imputation"
                  <=> 50 * n <= 100 * m

\* a column missing exactly 5 percent of its cells gets the KNN advice
C19_Witness ==
    /\ pc = "analyzed"
    /\ call.total_rows > 0
    /\ 100 * call.missing_count = 5 * call.total_rows
    /\ call.result = "KNN or Iterative imputation recommended"

\* the columns whose missing cells an imputation has changed
ColumnsChanged ==
    {c \in Range(columns) :
        MissingCount(df_imputed, c) # MissingCount(df_before, c)}

\* C20: the report's details hold exactly one (strategy, missing_before,
\* missing_after) entry for each imputed column; total_columns_imputed is the
\* number of these entries and the sum of the strategies_used counts; the
\* two totals are the sums of the entries' counts; and no entry has more
\* missing cells after than before.
C20_ReportMatchesImputation ==
    pc = "reported" =>
        LET details == call.result.details
            summary == call.result.summary
            entries == {c \in DOMAIN details :
                           DOMAIN details[c] = {"strategy", "missing_before",
                                                "missing_after"}}
            used == summary.strategies_used
        IN  /\ entries = ColumnsChanged
            /\ \A c \in entries :
                  /\ details[c].missing_before = MissingCount(df_before, c)
                  /\ details[c].missing_after = MissingCount(df_imputed, c)
                  /\ details[c].missing_after <= details[c].missing_before
            /\ summary.total_columns_imputed = Cardinality(entries)
            /\ summary.total_columns_imputed = SumW(used, DOMAIN used)
            /\ \A st \in DOMAIN used :
                  used[st] = Cardinality({c \in entries :
                                             details[c].strategy = st})
            /\ summary.total_missing_values_before
                  = SumW([c \in entries |-> details[c].missing_before],
                         entries)
            /\ summary.total_missing_values_after
                  = SumW([c \in entries |-> details[c].missing_after],
                         entries)

\* a report on three imputed columns and two strategies
C20_Witness ==
    /\ pc = "reported"
    /\ call.result.summary.total_columns_imputed = 3
    /\ Cardinality(DOMAIN call.result.summary.strategies_used) = 2
    /\ call.result.summary.total_missing_values_before > 3

----------------------------------------------------------------------------
(* Claims about main, the final tables and the imputer's frame *)

\* C21: when the input file of the platform's main is missing or unreadable,
\* main returns at load_data: no cleaning, imputation, filtering or splitting
\* step has run, no table was ever held and no output file is written.
C21_MissingInputAborts ==
    (entry = "main" /\ call.fn = "main" /\ call.input_file # "csv") =>
        /\ pc \in {"main_load", "main_aborted"}
        /\ pc = "main_aborted" => call.result = "None"
        /\ call.written = {}
        /\ df = NoTable /\ df_imputed = NoTable /\ df_final = NoTable
        /\ removed = EmptyFn
        /\ imputation_stats = EmptyFn /\ missing_info = EmptyFn

\* main has returned at load_data on a file that exists but cannot be read
C21_Witness ==
    /\ pc = "main_aborted"
    /\ call.fn = "main"
    /\ call.input_file = "unreadable"
    /\ call.result = "None"

\* C22: in the final table of the root pipeline no row has a missing Price,
\* Surface or Rooms, whatever the input table.
C22_RootBaseFieldsPopulated ==
    pc = "root_done" =>
        \A r \in DOMAIN df_final :
            /\ df_final[r].Price # NaN
            /\ df_final[r].Surface # NaN
            /\ df_final[r].Rooms # NaN

\* the part of C22 that holds: the room count is always populated
RootRoomsPopulated ==
    pc = "root_done" => \A r \in DOMAIN df_final : df_final[r].Rooms # NaN

C24_PreserveOriginalFrame ==
    (/\ entry \in {"fit_transform", "impute_real_estate_data"}
     /\ pc \in {"numerical_loop", "categorical_loop", "fit_returned",
                "fit_raised"}) =>
        /\ preserve_original => df = df_before
        /\ ~preserve_original => df = df_imputed

\* fit_transform has raised after it wrote a column to the copy
C24_Witness ==
    /\ entry \in {"fit_transform", "impute_real_estate_data"}
    /\ pc = "fit_raised"
    /\ preserve_original
    /\ df_imputed # df_before
    /\ df = df_before

\* without preserve_original the caller's table has been written
C24_InPlaceReached ==
    /\ entry \in {"fit_transform", "impute_real_estate_data"}
    /\ pc = "fit_returned"
    /\ ~preserve_original
    /\ df # df_before
    /\ df = df_imputed

\* C25: in the root pipeline a row of the final table whose transaction type
\* was missing in the input is in exactly one of the sales and rental tables
\* main writes.
C25_FilledRowsSurviveSplit ==
    (pc = "root_saved" /\ call.fn = "main") =>
        \A r \in DOMAIN df_final :
            df_before[r].TransactionType = NaN =>
                (r \in DOMAIN call.result.sales)
                    # (r \in DOMAIN call.result.rental)

\* the part of C25 that holds: a row filled with the label 'Vente' is in the
\* sales table and not in the rental table
VenteFilledRowsAreSales ==
    (pc = "root_saved" /\ call.fn = "main") =>
        \A r \in DOMAIN df_final :
            (/\ df_before[r].TransactionType = NaN
             /\ df_final[r].TransactionType = TT_Vente) =>
                /\ r \in DOMAIN call.result.sales
                /\ r \notin DOMAIN call.result.rental

====
